---------------------------- MODULE Spec2Model ----------------------------
(***************************************************************************)
(* Model of service/gate.go: one Gate (accept loop, per-connection read    *)
(* loops, kick, Write), its sessions, and the two sync.Pool buffer pools.  *)
(*                                                                         *)
(* Goroutines are modelled as interleaved threads whose steps are the      *)
(* statements that touch shared state.  Threads: the accept worker         *)
(* (Gate.start), one read worker per accepted connection (Gate.serve),     *)
(* one caller of kick and one caller of Write, which is also the thread    *)
(* on which the runtime runs GateDispatch and GateResponseDispatch.        *)
(***************************************************************************)
EXTENDS Integers, Sequences, FiniteSets

\* ------------------------------------------------------------------ bounds
MaxConn    == 2      \* connections the listener hands out
MaxPayload == 1      \* longest payload a client puts in a frame
MaxPush    == 2      \* envelopes pushed to the destination
MaxAddr    == 2      \* source addresses the runtime dispatches for
MaxEvents  == 2      \* calls and transport events from outside the gate:
                     \* kick, Write, close, a frame sent, a peer closing or
                     \* resetting, a temporary read error, a failed Accept,
                     \* a message dispatched by the runtime

\* ------------------------------------------------------- program constants
MaxInt32   == 2147483647   \* uint32 values are kept as their 32-bit patterns
HeadLen    == 2            \* make([]byte, 2)
PTYPE_CLIENT == "PTYPE_CLIENT"

Conns      == 1..MaxConn            \* connection handles, in accept order
Objs       == 1..MaxConn            \* bufio.Reader / bufio.Writer objects
NoConn     == 0                     \* nil stream / no connection
MaxClientChoices == 0..MaxConn      \* Conf.maxclient values explored
PayloadBytes == {1}                 \* bytes clients fill payloads with
OutData    == {<<3>>, <<4, 5>>}     \* ClientMsg.data values handed to Write

Accepter   == <<"accept", 0>>
Kicker     == <<"kick", 0>>
WriterT    == <<"write", 0>>
Server(c)  == <<"serve", c>>
NoThread   == <<"none", 0>>

NilSession == [sessionid |-> 0, conn |-> NoConn, br |-> 0, bw |-> 0]

Addrs      == 1..MaxAddr            \* cham.Address values
MainAddr   == 1                     \* the source of the Gate modelled in full
NoGate     == 0                     \* nil *Gate
TheGate    == 1                     \* the Gate modelled in full
NoDispatch == [source |-> 0, session |-> 0, data |-> <<>>, gate |-> NoGate]

VARIABLES
    \* Gate
    maxclient, clinetnum, quit, sessions, rwmutex,
    \* Gate.start locals and the listener
    apc, sessionId, aconn, asession, listening,
    \* connections: gateway side, peer side, byte streams
    nconn, connOpen, peer, stream, rpos, sockOut,
    \* bufio objects and the two sync.Pools
    nrd, nwr, rdBind, wrBind, readerPool, writerPool,
    \* Gate.serve workers, one per session (indexed by connection)
    spc, ssession, pending, head, data,
    \* caller of kick
    kpc, kid, ksession, kok,
    \* caller of Write
    wpc, wmsg, wsession, wok,
    \* destination mailbox, process state
    mailbox, crashed,
    \* history
    closeCount, kicked, issued, frames, failedRead, overwrote, admitted,
    wAfterKick, wDest, nevents,
    \* GATES: address -> Gate; the Gates made so far
    GATES, ngate,
    \* history of the dispatch handlers
    dispatched, ndisp, nresp, rdisp,
    \* history of the reads and of the accept loop
    lastCause, lastErr, stole, pushedAfterKick, afterQuit, liveAtClose

gateVars   == <<maxclient, clinetnum, quit, sessions, rwmutex>>
acceptVars == <<apc, sessionId, aconn, asession, listening>>
connVars   == <<nconn, connOpen, peer, stream, rpos, sockOut>>
poolVars   == <<nrd, nwr, rdBind, wrBind, readerPool, writerPool>>
serveVars  == <<spc, ssession, pending, head, data>>
kickVars   == <<kpc, kid, ksession, kok>>
writeVars  == <<wpc, wmsg, wsession, wok>>
ghostVars  == <<closeCount, kicked, issued, frames, failedRead, overwrote,
                admitted, wAfterKick, wDest>>
histVars   == <<ghostVars, nevents>>

regVars    == <<GATES, ngate, dispatched, ndisp, nresp, rdisp>>
readHist   == <<lastCause, lastErr, stole, pushedAfterKick>>
extVars    == <<regVars, readHist, afterQuit, liveAtClose>>

vars == <<gateVars, acceptVars, connVars, poolVars, serveVars, kickVars,
          writeVars, mailbox, crashed, histVars, extVars>>

\* ----------------------------------------------------------------- helpers
\* uint32 arithmetic on 32-bit patterns: the values 2^31 .. 2^32-1 are the
\* negative integers, so that an increment wraps at 2^32 as the code's does.
Inc32(v) == IF v = MaxInt32 THEN (-MaxInt32) - 1 ELSE v + 1

Geq32(a, b) == IF (a >= 0) = (b >= 0) THEN a >= b ELSE a < 0

Min(a, b) == IF a < b THEN a ELSE b

Zeros(n) == [i \in 1..n |-> 0]

\* sync.RWMutex
Unlocked      == [writer |-> NoThread, readers |-> {}]
CanLock(m)    == m.writer = NoThread /\ m.readers = {}
CanRLock(m)   == m.writer = NoThread
Locked(m, t)  == [m EXCEPT !.writer = t]
RLocked(m, t) == [m EXCEPT !.readers = @ \cup {t}]
RUnlocked(m, t) == [m EXCEPT !.readers = @ \ {t}]
Holds(t)      == rwmutex.writer = t
HoldsR(t)     == t \in rwmutex.readers

\* map[cham.Address]*Gate
RegPut(reg, a, g) == [x \in DOMAIN reg \cup {a} |-> IF x = a THEN g ELSE reg[x]]
RegGet(reg, a)    == IF a \in DOMAIN reg THEN reg[a] ELSE NoGate

\* map[uint32]*Session
MapPut(m, k, v) == [x \in DOMAIN m \cup {k} |-> IF x = k THEN v ELSE m[x]]
MapDelete(m, k) == [x \in DOMAIN m \ {k} |-> m[x]]
MapGet(m, k)    == IF k \in DOMAIN m THEN m[k] ELSE NilSession
MapHas(m, k)    == k \in DOMAIN m

Init ==
    /\ maxclient \in MaxClientChoices
    /\ clinetnum = 0
    /\ quit = FALSE
    /\ sessions = [x \in {} |-> NilSession]
    /\ rwmutex = Unlocked
    /\ apc = "select"
    /\ sessionId = 0
    /\ aconn = NoConn
    /\ asession = NilSession
    /\ listening = TRUE
    /\ nconn = 0
    /\ connOpen = [c \in Conns |-> FALSE]
    /\ peer = [c \in Conns |-> "none"]
    /\ stream = [c \in Conns |-> <<>>]
    /\ rpos = [c \in Conns |-> 0]
    /\ sockOut = [c \in Conns |-> <<>>]
    /\ nrd = 0
    /\ nwr = 0
    /\ rdBind = [o \in Objs |-> NoConn]
    /\ wrBind = [o \in Objs |-> NoConn]
    /\ readerPool = [o \in Objs |-> 0]
    /\ writerPool = [o \in Objs |-> 0]
    /\ spc = [c \in Conns |-> "none"]
    /\ ssession = [c \in Conns |-> NilSession]
    /\ pending = [c \in Conns |-> NoConn]
    /\ head = [c \in Conns |-> Zeros(HeadLen)]
    /\ data = [c \in Conns |-> <<>>]
    /\ kpc = "idle"
    /\ kid = 0
    /\ ksession = NilSession
    /\ kok = FALSE
    /\ wpc = "idle"
    /\ wmsg = [session |-> 0, data |-> <<>>]
    /\ wsession = NilSession
    /\ wok = FALSE
    /\ mailbox = <<>>
    /\ crashed = FALSE
    /\ closeCount = [c \in Conns |-> 0]
    /\ kicked = {}
    /\ issued = <<>>
    /\ frames = [c \in Conns |-> <<>>]
    /\ failedRead = [c \in Conns |-> FALSE]
    /\ overwrote = FALSE
    /\ admitted = [c \in Conns |-> [count |-> 0, live |-> 0, closed |-> FALSE]]
    /\ wAfterKick = FALSE
    /\ wDest = NoConn
    /\ nevents = 0
    /\ GATES = [a \in {MainAddr} |-> TheGate]
    /\ ngate = 1
    /\ dispatched = {MainAddr}
    /\ ndisp = 0
    /\ nresp = 0
    /\ rdisp = NoDispatch
    /\ lastCause = [c \in Conns |-> "none"]
    /\ lastErr = [c \in Conns |-> FALSE]
    /\ stole = FALSE
    /\ pushedAfterKick = FALSE
    /\ afterQuit = 0
    /\ liveAtClose = {}


Running == ~crashed

\* one more event from outside the gate
Event == nevents < MaxEvents /\ nevents' = nevents + 1

\* ------------------------------------------------------------- buffer pool
\* sync.Pool.Get: any pooled object, or nil (the pool may be treated as
\* empty), in which case a new object is allocated.
PoolChoices(pool, n) == {o \in Objs : pool[o] > 0} \cup {n + 1}

PoolTake(pool, o) == IF pool[o] > 0 THEN [pool EXCEPT ![o] = @ - 1] ELSE pool

PoolPut(pool, o) == [pool EXCEPT ![o] = @ + 1]

\* br.Reset(r) / bw.Reset(w), also with nil
Rebind(bind, o, c) == [bind EXCEPT ![o] = c]

\* --------------------------------------------------------------- Gate.start
\* the comparison as > instead of >=
AtCap_Strict(n, max) == max # 0 /\ Geq32(n, max) /\ n # max

AtCap(n, max) == max # 0 /\ Geq32(n, max)

\* the counter incremented only the first time
NextSessionId_Stuck(s) == IF s = 0 THEN 1 ELSE s

NextSessionId(s) == Inc32(s)

\* the quit case never taken
QuitSeen_Never(q) == FALSE

\* select: case <-g.quit is ready once the channel is closed; default runs
\* only when it is not
QuitSeen(q) == q

StartSelect ==
    /\ Running
    /\ apc = "select"
    /\ IF QuitSeen(quit)
         THEN apc' = "done" /\ listening' = FALSE
         ELSE apc' = "accept" /\ UNCHANGED listening
    /\ UNCHANGED <<gateVars, sessionId, aconn, asession, connVars, poolVars,
                   serveVars, kickVars, writeVars, mailbox, crashed, histVars>>
    /\ UNCHANGED extVars

AcceptConn ==
    /\ Running
    /\ apc = "accept"
    /\ nconn < MaxConn
    /\ nconn' = nconn + 1
    /\ connOpen' = [connOpen EXCEPT ![nconn + 1] = TRUE]
    /\ peer' = [peer EXCEPT ![nconn + 1] = "open"]
    /\ aconn' = nconn + 1
    /\ apc' = "admit"
    /\ UNCHANGED <<gateVars, sessionId, asession, listening, stream, rpos,
                   sockOut, poolVars, serveVars, kickVars, writeVars, mailbox,
                   crashed, histVars>>
    /\ afterQuit' = IF quit THEN afterQuit + 1 ELSE afterQuit
    /\ UNCHANGED <<regVars, readHist, liveAtClose>>

AcceptError ==
    /\ Running
    /\ Event
    /\ apc = "accept"
    /\ apc' = "select"
    /\ UNCHANGED <<gateVars, sessionId, aconn, asession, listening, connVars,
                   poolVars, serveVars, kickVars, writeVars, mailbox, crashed,
                   ghostVars>>
    /\ UNCHANGED extVars

Admit ==
    /\ Running
    /\ apc = "admit"
    /\ connOpen' = IF AtCap(clinetnum, maxclient)
                     THEN [connOpen EXCEPT ![aconn] = FALSE]
                     ELSE connOpen
    /\ clinetnum' = Inc32(clinetnum)
    /\ sessionId' = NextSessionId(sessionId)
    /\ \E r \in PoolChoices(readerPool, nrd), w \in PoolChoices(writerPool, nwr) :
         /\ readerPool' = PoolTake(readerPool, r)
         /\ writerPool' = PoolTake(writerPool, w)
         /\ nrd' = IF r > nrd THEN r ELSE nrd
         /\ nwr' = IF w > nwr THEN w ELSE nwr
         /\ rdBind' = Rebind(rdBind, r, aconn)
         /\ wrBind' = Rebind(wrBind, w, aconn)
         /\ asession' = [sessionid |-> sessionId', conn |-> aconn,
                         br |-> r, bw |-> w]
    /\ issued' = Append(issued, sessionId')
    /\ admitted' = [admitted EXCEPT ![aconn] =
                       [count |-> clinetnum,
                        live |-> Cardinality(DOMAIN sessions),
                        closed |-> ~connOpen'[aconn]]]
    /\ apc' = "lock"
    /\ UNCHANGED <<maxclient, quit, sessions, rwmutex, aconn, listening,
                   nconn, peer, stream, rpos, sockOut, serveVars, kickVars,
                   writeVars, mailbox, crashed, closeCount, kicked, frames,
                   failedRead, overwrote, wAfterKick, wDest,
                   nevents>>
    /\ UNCHANGED extVars

StartLock ==
    /\ Running
    /\ apc = "lock"
    /\ CanLock(rwmutex)
    /\ rwmutex' = Locked(rwmutex, Accepter)
    /\ apc' = "insert"
    /\ UNCHANGED <<maxclient, clinetnum, quit, sessions, sessionId, aconn,
                   asession, listening, connVars, poolVars, serveVars,
                   kickVars, writeVars, mailbox, crashed, histVars>>
    /\ UNCHANGED extVars

StartInsert ==
    /\ Running
    /\ apc = "insert"
    /\ Holds(Accepter)
    /\ sessions' = MapPut(sessions, asession.sessionid, asession)
    /\ overwrote' = (overwrote \/ MapHas(sessions, asession.sessionid))
    /\ rwmutex' = Unlocked
    /\ spc' = [spc EXCEPT ![aconn] = "head"]
    /\ ssession' = [ssession EXCEPT ![aconn] = asession]
    /\ apc' = "select"
    /\ UNCHANGED <<maxclient, clinetnum, quit, sessionId, aconn, asession,
                   listening, connVars, poolVars, pending, head, data,
                   kickVars, writeVars, mailbox, crashed, closeCount, kicked,
                   issued, frames, failedRead, admitted, wAfterKick, wDest, nevents>>
    /\ UNCHANGED extVars

\* --------------------------------------------------------------- Gate.close
GateClose ==
    /\ Running
    /\ Event
    /\ ~quit
    /\ quit' = TRUE
    /\ UNCHANGED <<maxclient, clinetnum, sessions, rwmutex, acceptVars,
                   connVars, poolVars, serveVars, kickVars, writeVars, mailbox,
                   crashed, ghostVars>>
    /\ liveAtClose' = DOMAIN sessions
    /\ UNCHANGED <<regVars, readHist, afterQuit>>

\* ------------------------------------------------------------------ clients
\* 2-byte big-endian length followed by the payload
Frame(p) == <<Len(p) \div 256, Len(p) % 256>> \o p

Payloads == UNION {[1..n -> PayloadBytes] : n \in 0..MaxPayload}

ClientSendFrame(c, p) ==
    /\ Running
    /\ c <= nconn
    /\ peer[c] = "open"
    /\ connOpen[c]
    /\ Event
    /\ stream' = [stream EXCEPT ![c] = @ \o Frame(p)]
    /\ frames' = [frames EXCEPT ![c] = Append(@, p)]
    /\ UNCHANGED <<gateVars, acceptVars, nconn, connOpen, peer, rpos, sockOut,
                   poolVars, serveVars, kickVars, writeVars, mailbox, crashed,
                   closeCount, kicked, issued, failedRead, overwrote, admitted,
                   wAfterKick, wDest>>
    /\ UNCHANGED extVars

ClientClose(c) ==
    /\ Running
    /\ Event
    /\ c <= nconn
    /\ peer[c] = "open"
    /\ peer' = [peer EXCEPT ![c] = "eof"]
    /\ UNCHANGED <<gateVars, acceptVars, nconn, connOpen, stream, rpos,
                   sockOut, poolVars, serveVars, kickVars, writeVars, mailbox,
                   crashed, ghostVars>>
    /\ UNCHANGED extVars

ClientReset(c) ==
    /\ Running
    /\ Event
    /\ c <= nconn
    /\ peer[c] = "open"
    /\ peer' = [peer EXCEPT ![c] = "reset"]
    /\ UNCHANGED <<gateVars, acceptVars, nconn, connOpen, stream, rpos,
                   sockOut, poolVars, serveVars, kickVars, writeVars, mailbox,
                   crashed, ghostVars>>
    /\ UNCHANGED extVars

\* ---------------------------------------------------------------- reading
Avail(x) == Len(stream[x]) - rpos[x]

Taken(x, k) == SubSeq(stream[x], rpos[x] + 1, rpos[x] + k)

\* the first bytes of buf overwritten, the rest as it was
Fill(buf, bytes) ==
    [i \in 1..Len(buf) |-> IF i <= Len(bytes) THEN bytes[i] ELSE buf[i]]

\* io.ReadFull(s.brw, buf) on stream x with len(buf) = n: what it can return.
\* cause is the error: "nil", "eof" (io.EOF / io.ErrUnexpectedEOF),
\* "temporary" (a net.Error with Temporary()), "fatal" (any other net.Error:
\* the socket was closed on this side, or the peer reset the connection).
IoReadFull(x, n, buf) ==
    IF n = 0
      THEN {[cause |-> "nil", k |-> 0, buf |-> buf]}
      ELSE (IF connOpen[x] /\ Avail(x) >= n
              THEN {[cause |-> "nil", k |-> n, buf |-> Taken(x, n)]}
              ELSE {})
           \cup
           (IF connOpen[x] /\ peer[x] = "eof" /\ Avail(x) < n
              THEN {[cause |-> "eof", k |-> Avail(x),
                     buf |-> Fill(buf, Taken(x, Avail(x)))]}
              ELSE {})
           \cup
           (IF ~connOpen[x] \/ peer[x] = "reset"
              THEN {[cause |-> "fatal", k |-> 0, buf |-> buf]}
              ELSE {})
           \cup
           (IF connOpen[x] /\ peer[x] = "open" /\ nevents < MaxEvents
              THEN {[cause |-> "temporary", k |-> j,
                     buf |-> Fill(buf, Taken(x, j))] :
                        j \in 0..Min(Avail(x), n - 1)}
              ELSE {})

IsNetError(cause) == cause \in {"temporary", "fatal"}

Temporary(cause) == cause = "temporary"

\* Session.ReadFull: TRUE when it returns an error
ReadFullFails(cause) == cause # "nil" /\ IsNetError(cause) /\ ~Temporary(cause)

BigEndianUint16(h) == h[1] * 256 + h[2]

NewClientMsg(session, d) == [session |-> session, data |-> d]

NewMsg(ptype, m) == [ptype |-> ptype, msg |-> m]

\* --------------------------------------------------------------- Gate.serve
\* A read first evaluates the stream the session's bufio.Reader is bound to
\* (nil after putBufioReader: a nil dereference), then blocks on it.
ServeHead(c) ==
    /\ Running
    /\ spc[c] = "head"
    /\ IF rdBind[ssession[c].br] = NoConn
         THEN crashed' = TRUE /\ UNCHANGED <<spc, pending>>
         ELSE /\ pending' = [pending EXCEPT ![c] = rdBind[ssession[c].br]]
              /\ spc' = [spc EXCEPT ![c] = "headWait"]
              /\ UNCHANGED crashed
    /\ UNCHANGED <<gateVars, acceptVars, connVars, poolVars, ssession, head,
                   data, kickVars, writeVars, mailbox, histVars>>
    /\ UNCHANGED extVars

ServeHeadDone(c) ==
    /\ Running
    /\ spc[c] = "headWait"
    /\ \E r \in IoReadFull(pending[c], HeadLen, head[c]) :
         /\ rpos' = [rpos EXCEPT ![pending[c]] = @ + r.k]
         /\ head' = [head EXCEPT ![c] = r.buf]
         /\ nevents' = IF r.cause = "temporary" THEN nevents + 1 ELSE nevents
         /\ failedRead' = [failedRead EXCEPT
                             ![c] = @ \/ r.cause \in {"eof", "fatal"}]
         /\ lastCause' = [lastCause EXCEPT ![c] = r.cause]
         /\ lastErr' = [lastErr EXCEPT ![c] = ReadFullFails(r.cause)]
         /\ stole' = (stole \/ (/\ r.k > 0
                                 /\ pending[c] # ssession[c].conn
                                 /\ ssession[c].sessionid \in kicked))
         /\ IF ReadFullFails(r.cause)
              THEN spc' = [spc EXCEPT ![c] = "closeLock"] /\ UNCHANGED data
              ELSE /\ spc' = [spc EXCEPT ![c] = "body"]
                   /\ data' = [data EXCEPT ![c] = Zeros(BigEndianUint16(r.buf))]
    /\ UNCHANGED <<gateVars, acceptVars, nconn, connOpen, peer, stream,
                   sockOut, poolVars, ssession, pending, kickVars, writeVars,
                   mailbox, crashed, closeCount, kicked, issued, frames,
                   overwrote, admitted, wAfterKick, wDest>>
    /\ UNCHANGED <<regVars, pushedAfterKick, afterQuit, liveAtClose>>

ServeBody(c) ==
    /\ Running
    /\ spc[c] = "body"
    /\ IF Len(data[c]) # 0 /\ rdBind[ssession[c].br] = NoConn
         THEN crashed' = TRUE /\ UNCHANGED <<spc, pending>>
         ELSE /\ pending' = [pending EXCEPT ![c] = rdBind[ssession[c].br]]
              /\ spc' = [spc EXCEPT ![c] = "bodyWait"]
              /\ UNCHANGED crashed
    /\ UNCHANGED <<gateVars, acceptVars, connVars, poolVars, ssession, head,
                   data, kickVars, writeVars, mailbox, histVars>>
    /\ UNCHANGED extVars

ServeBodyDone(c) ==
    /\ Running
    /\ spc[c] = "bodyWait"
    /\ \E r \in IoReadFull(pending[c], Len(data[c]), data[c]) :
         /\ rpos' = IF r.k = 0 THEN rpos
                    ELSE [rpos EXCEPT ![pending[c]] = @ + r.k]
         /\ data' = [data EXCEPT ![c] = r.buf]
         /\ nevents' = IF r.cause = "temporary" THEN nevents + 1 ELSE nevents
         /\ failedRead' = [failedRead EXCEPT
                             ![c] = @ \/ r.cause \in {"eof", "fatal"}]
         /\ lastCause' = [lastCause EXCEPT ![c] = r.cause]
         /\ lastErr' = [lastErr EXCEPT ![c] = ReadFullFails(r.cause)]
         /\ stole' = (stole \/ (/\ r.k > 0
                                 /\ pending[c] # ssession[c].conn
                                 /\ ssession[c].sessionid \in kicked))
         /\ IF ReadFullFails(r.cause)
              THEN /\ spc' = [spc EXCEPT ![c] = "closeLock"]
                   /\ UNCHANGED <<mailbox, pushedAfterKick>>
              ELSE /\ Len(mailbox) < MaxPush
                   /\ mailbox' = Append(mailbox,
                        NewMsg(PTYPE_CLIENT,
                               NewClientMsg(ssession[c].sessionid, r.buf)))
                   /\ pushedAfterKick' =
                        (pushedAfterKick \/ ssession[c].sessionid \in kicked)
                   /\ spc' = [spc EXCEPT ![c] = "head"]
    /\ UNCHANGED <<gateVars, acceptVars, nconn, connOpen, peer, stream,
                   sockOut, poolVars, ssession, pending, head, kickVars,
                   writeVars, crashed, closeCount, kicked, issued, frames,
                   overwrote, admitted, wAfterKick, wDest>>
    /\ UNCHANGED <<regVars, afterQuit, liveAtClose>>

\* -------------------------------------------------------- Gate.closeSession
ServeCloseLock(c) ==
    /\ Running
    /\ spc[c] = "closeLock"
    /\ CanLock(rwmutex)
    /\ rwmutex' = Locked(rwmutex, Server(c))
    /\ spc' = [spc EXCEPT ![c] = "closeDelete"]
    /\ UNCHANGED <<maxclient, clinetnum, quit, sessions, acceptVars, connVars,
                   poolVars, ssession, pending, head, data, kickVars,
                   writeVars, mailbox, crashed, histVars>>
    /\ UNCHANGED extVars

ServeCloseDelete(c) ==
    /\ Running
    /\ spc[c] = "closeDelete"
    /\ Holds(Server(c))
    /\ sessions' = MapDelete(sessions, ssession[c].sessionid)
    /\ rwmutex' = Unlocked
    /\ spc' = [spc EXCEPT ![c] = "putReader"]
    /\ UNCHANGED <<maxclient, clinetnum, quit, acceptVars, connVars, poolVars,
                   ssession, pending, head, data, kickVars, writeVars, mailbox,
                   crashed, histVars>>
    /\ UNCHANGED extVars

\* ------------------------------------------------------------ Session.Close
ServePutReader(c) ==
    /\ Running
    /\ spc[c] = "putReader"
    /\ rdBind' = Rebind(rdBind, ssession[c].br, NoConn)
    /\ readerPool' = PoolPut(readerPool, ssession[c].br)
    /\ closeCount' = [closeCount EXCEPT ![ssession[c].conn] = @ + 1]
    /\ spc' = [spc EXCEPT ![c] = "putWriter"]
    /\ UNCHANGED <<gateVars, acceptVars, connVars, nrd, nwr, wrBind,
                   writerPool, ssession, pending, head, data, kickVars,
                   writeVars, mailbox, crashed, kicked, issued, frames,
                   failedRead, overwrote, admitted, wAfterKick, wDest, nevents>>
    /\ UNCHANGED extVars

ServePutWriter(c) ==
    /\ Running
    /\ spc[c] = "putWriter"
    /\ wrBind' = Rebind(wrBind, ssession[c].bw, NoConn)
    /\ writerPool' = PoolPut(writerPool, ssession[c].bw)
    /\ spc' = [spc EXCEPT ![c] = "connClose"]
    /\ UNCHANGED <<gateVars, acceptVars, connVars, nrd, nwr, rdBind,
                   readerPool, ssession, pending, head, data, kickVars,
                   writeVars, mailbox, crashed, histVars>>
    /\ UNCHANGED extVars

ServeConnClose(c) ==
    /\ Running
    /\ spc[c] = "connClose"
    /\ connOpen' = [connOpen EXCEPT ![ssession[c].conn] = FALSE]
    /\ spc' = [spc EXCEPT ![c] = "done"]
    /\ UNCHANGED <<gateVars, acceptVars, nconn, peer, stream, rpos, sockOut,
                   poolVars, ssession, pending, head, data, kickVars,
                   writeVars, mailbox, crashed, histVars>>
    /\ UNCHANGED extVars

\* ---------------------------------------------------------------- Gate.kick
SessionIds == 1..MaxConn      \* ids callers pass to kick and Write

\* ok not tested, as in closeSession
KickOk_Always(m, id) == TRUE

KickOk(m, id) == MapHas(m, id)

\* the delete left out
KickRemove_Keep(m, id) == m

KickRemove(m, id) == IF MapHas(m, id) THEN MapDelete(m, id) ELSE m

KickCall(id) ==
    /\ Running
    /\ kpc = "idle"
    /\ Event
    /\ kid' = id
    /\ ksession' = NilSession
    /\ kok' = FALSE
    /\ kpc' = "lock"
    /\ UNCHANGED <<gateVars, acceptVars, connVars, poolVars, serveVars,
                   writeVars, mailbox, crashed, ghostVars>>
    /\ UNCHANGED extVars

\* RLock taken where Lock is
KickCanLock_Shared(m) == CanRLock(m)

\* g.rwmutex.Lock() in kick
KickCanLock(m) == CanLock(m)

KickLock ==
    /\ Running
    /\ kpc = "lock"
    /\ KickCanLock(rwmutex)
    /\ rwmutex' = Locked(rwmutex, Kicker)
    /\ kpc' = "delete"
    /\ UNCHANGED <<maxclient, clinetnum, quit, sessions, acceptVars, connVars,
                   poolVars, serveVars, kid, ksession, kok, writeVars, mailbox,
                   crashed, histVars>>
    /\ UNCHANGED extVars

\* Unlock put off until after session.Close()
KickUnlock_Late(m) == m

\* g.rwmutex.Unlock() in kick, before the test of ok
KickUnlock(m) == Unlocked

\* lines 195-199: lookup, delete, Unlock, and the test of ok
KickDelete ==
    /\ Running
    /\ kpc = "delete"
    /\ Holds(Kicker)
    /\ ksession' = MapGet(sessions, kid)
    /\ kok' = KickOk(sessions, kid)
    /\ sessions' = KickRemove(sessions, kid)
    /\ rwmutex' = KickUnlock(rwmutex)
    /\ kpc' = IF kok' THEN "putReader" ELSE "idle"
    /\ UNCHANGED <<maxclient, clinetnum, quit, acceptVars, connVars, poolVars,
                   serveVars, kid, writeVars, mailbox, crashed, histVars>>
    /\ UNCHANGED extVars

\* session.Close() called by kick; a nil session is a nil dereference
KickPutReader ==
    /\ Running
    /\ kpc = "putReader"
    /\ IF ksession = NilSession
         THEN /\ crashed' = TRUE
              /\ UNCHANGED <<rdBind, readerPool, closeCount, kpc>>
         ELSE /\ rdBind' = Rebind(rdBind, ksession.br, NoConn)
              /\ readerPool' = PoolPut(readerPool, ksession.br)
              /\ closeCount' = [closeCount EXCEPT ![ksession.conn] = @ + 1]
              /\ kpc' = "putWriter"
              /\ UNCHANGED crashed
    /\ UNCHANGED <<gateVars, acceptVars, connVars, nrd, nwr, wrBind,
                   writerPool, serveVars, kid, ksession, kok, writeVars,
                   mailbox, kicked, issued, frames, failedRead, overwrote, admitted,
                   wAfterKick, wDest, nevents>>
    /\ UNCHANGED extVars

KickPutWriter ==
    /\ Running
    /\ kpc = "putWriter"
    /\ wrBind' = Rebind(wrBind, ksession.bw, NoConn)
    /\ writerPool' = PoolPut(writerPool, ksession.bw)
    /\ kpc' = "connClose"
    /\ UNCHANGED <<gateVars, acceptVars, connVars, nrd, nwr, rdBind,
                   readerPool, serveVars, kid, ksession, kok, writeVars,
                   mailbox, crashed, histVars>>
    /\ UNCHANGED extVars

\* s.conn.Close(), after which kick returns
KickConnClose ==
    /\ Running
    /\ kpc = "connClose"
    /\ connOpen' = [connOpen EXCEPT ![ksession.conn] = FALSE]
    /\ kicked' = kicked \cup {kid}
    /\ kpc' = "idle"
    /\ UNCHANGED <<gateVars, acceptVars, nconn, peer, stream, rpos, sockOut,
                   poolVars, serveVars, kid, ksession, kok, writeVars, mailbox,
                   crashed, closeCount, issued, frames, failedRead, overwrote, admitted,
                   wAfterKick, wDest, nevents>>
    /\ UNCHANGED extVars

\* --------------------------------------------------------------- Gate.Write
WriteOk(m, id) == MapHas(m, id)

WriteCall(id, d) ==
    /\ Running
    /\ wpc = "idle"
    /\ Event
    /\ wmsg' = NewClientMsg(id, d)
    /\ wsession' = NilSession
    /\ wok' = FALSE
    /\ wAfterKick' = (id \in kicked)
    /\ wDest' = NoConn
    /\ wpc' = "rlock"
    /\ UNCHANGED <<gateVars, acceptVars, connVars, poolVars, serveVars,
                   kickVars, mailbox, crashed, closeCount, kicked, issued,
                   frames, failedRead, overwrote, admitted>>
    /\ UNCHANGED extVars

WriteRLock ==
    /\ Running
    /\ wpc = "rlock"
    /\ CanRLock(rwmutex)
    /\ rwmutex' = RLocked(rwmutex, WriterT)
    /\ wpc' = "lookup"
    /\ UNCHANGED <<maxclient, clinetnum, quit, sessions, acceptVars, connVars,
                   poolVars, serveVars, kickVars, wmsg, wsession, wok, mailbox,
                   crashed, histVars>>
    /\ UNCHANGED extVars

\* lines 206-208: lookup, RUnlock, and the test of ok
WriteLookup ==
    /\ Running
    /\ wpc = "lookup"
    /\ HoldsR(WriterT)
    /\ wsession' = MapGet(sessions, wmsg.session)
    /\ wok' = WriteOk(sessions, wmsg.session)
    /\ rwmutex' = RUnlocked(rwmutex, WriterT)
    /\ wpc' = IF wok' THEN "write" ELSE "idle"
    /\ UNCHANGED <<maxclient, clinetnum, quit, sessions, acceptVars, connVars,
                   poolVars, serveVars, kickVars, wmsg, mailbox, crashed,
                   histVars>>
    /\ UNCHANGED extVars

\* Session.Write: s.brw.Write(data); s.brw.Flush().  The bytes go to the
\* stream the bufio.Writer is bound to when it is flushed; a nil stream is a
\* nil dereference, a socket closed on this side takes no bytes.
WriteSession ==
    /\ Running
    /\ wpc = "write"
    /\ IF wsession = NilSession \/ wrBind[wsession.bw] = NoConn
         THEN crashed' = TRUE /\ UNCHANGED <<sockOut, wDest, wpc>>
         ELSE /\ IF connOpen[wrBind[wsession.bw]]
                   THEN /\ sockOut' = [sockOut EXCEPT
                                         ![wrBind[wsession.bw]] = @ \o wmsg.data]
                        /\ wDest' = wrBind[wsession.bw]
                   ELSE UNCHANGED <<sockOut, wDest>>
              /\ wpc' = "idle"
              /\ UNCHANGED crashed
    /\ UNCHANGED <<gateVars, acceptVars, nconn, connOpen, peer, stream, rpos,
                   poolVars, serveVars, kickVars, wmsg, wsession, wok, mailbox,
                   closeCount, kicked, issued, frames, failedRead, overwrote, admitted,
                   wAfterKick, nevents>>
    /\ UNCHANGED extVars

\* ------------------------------------------------- GateDispatch, registry
\* the test of ok left out: a Gate is made on every call
DispatchCreates_Always(reg, a) == TRUE

DispatchCreates(reg, a) == a \notin DOMAIN reg

\* Runs on the runtime's handler thread, as GateResponseDispatch and its
\* Write do.  A Gate made here is not opened: its sessions stay empty.
GateDispatch(a) ==
    /\ Running
    /\ Event
    /\ wpc = "idle"
    /\ IF DispatchCreates(GATES, a)
         THEN GATES' = RegPut(GATES, a, ngate + 1) /\ ngate' = ngate + 1
         ELSE UNCHANGED <<GATES, ngate>>
    /\ dispatched' = dispatched \cup {a}
    /\ ndisp' = ndisp + 1
    /\ UNCHANGED <<gateVars, acceptVars, connVars, poolVars, serveVars,
                   kickVars, writeVars, mailbox, crashed, ghostVars, nresp,
                   rdisp, readHist, afterQuit, liveAtClose>>

\* ----------------------------------------------------- GateResponseDispatch
\* a nil check that drops the envelope
RespPanics_Never(reg, a) == FALSE

\* GATES[source] is nil: gate.Write dereferences it at g.rwmutex
RespPanics(reg, a) == a \notin DOMAIN reg

\* For the Gate modelled in full this is the entry of its Write; the Write of
\* any other Gate finds no session (it has none) and returns.
GateResponseDispatch(a, id, d) ==
    /\ Running
    /\ Event
    /\ wpc = "idle"
    /\ nresp' = nresp + 1
    /\ rdisp' = [source |-> a, session |-> id, data |-> d,
                 gate |-> RegGet(GATES, a)]
    /\ IF RespPanics(GATES, a)
         THEN /\ crashed' = TRUE
              /\ UNCHANGED <<writeVars, wAfterKick, wDest>>
         ELSE IF RegGet(GATES, a) = TheGate
           THEN /\ wmsg' = NewClientMsg(id, d)
                /\ wsession' = NilSession
                /\ wok' = FALSE
                /\ wAfterKick' = (id \in kicked)
                /\ wDest' = NoConn
                /\ wpc' = "rlock"
                /\ UNCHANGED crashed
           ELSE UNCHANGED <<writeVars, wAfterKick, wDest, crashed>>
    /\ UNCHANGED <<gateVars, acceptVars, connVars, poolVars, serveVars,
                   kickVars, mailbox, closeCount, kicked, issued, frames,
                   failedRead, overwrote, admitted, GATES, ngate, dispatched,
                   ndisp, readHist, afterQuit, liveAtClose>>

\* ------------------------------------------------------------ specification
Next ==
    \/ StartSelect
    \/ AcceptConn
    \/ AcceptError
    \/ Admit
    \/ StartLock
    \/ StartInsert
    \/ GateClose
    \/ \E c \in Conns, p \in Payloads : ClientSendFrame(c, p)
    \/ \E c \in Conns : ClientClose(c)
    \/ \E c \in Conns : ClientReset(c)
    \/ \E c \in Conns : ServeHead(c)
    \/ \E c \in Conns : ServeHeadDone(c)
    \/ \E c \in Conns : ServeBody(c)
    \/ \E c \in Conns : ServeBodyDone(c)
    \/ \E c \in Conns : ServeCloseLock(c)
    \/ \E c \in Conns : ServeCloseDelete(c)
    \/ \E c \in Conns : ServePutReader(c)
    \/ \E c \in Conns : ServePutWriter(c)
    \/ \E c \in Conns : ServeConnClose(c)
    \/ \E id \in SessionIds : KickCall(id)
    \/ KickLock
    \/ KickDelete
    \/ KickPutReader
    \/ KickPutWriter
    \/ KickConnClose
    \/ \E id \in SessionIds, d \in OutData : WriteCall(id, d)
    \/ WriteRLock
    \/ WriteLookup
    \/ WriteSession
    \/ \E a \in Addrs : GateDispatch(a)
    \/ \E a \in Addrs, id \in SessionIds, d \in OutData :
          GateResponseDispatch(a, id, d)

Spec == Init /\ [][Next]_vars

\* The steps each goroutine takes by itself.  The Go scheduler runs every
\* runnable goroutine, and a caller inside kick or Write runs to its return;
\* what clients and callers do from outside is under no obligation, and
\* neither is a read that would return only by a temporary error.
StartSteps == StartSelect \/ Admit \/ StartLock \/ StartInsert

ServeSteps(c) ==
    \/ ServeHead(c) \/ ServeHeadDone(c) \/ ServeBody(c) \/ ServeBodyDone(c)
    \/ ServeCloseLock(c) \/ ServeCloseDelete(c) \/ ServePutReader(c)
    \/ ServePutWriter(c) \/ ServeConnClose(c)

KickSteps ==
    KickLock \/ KickDelete \/ KickPutReader \/ KickPutWriter \/ KickConnClose

WriteSteps == WriteRLock \/ WriteLookup \/ WriteSession

Fairness ==
    /\ WF_vars(StartSteps)
    /\ \A c \in Conns : WF_vars(ServeSteps(c) /\ nevents' = nevents)
    /\ WF_vars(KickSteps)
    /\ WF_vars(WriteSteps)

FairSpec == Spec /\ Fairness

\* ------------------------------------------------------------------ claims
\* a session has been built for connection c (newSession has run)
HasSession(c) == c <= nconn /\ ~(apc = "admit" /\ aconn = c)

\* the worker of c is inside closeSession / Session.Close
Closing(c) ==
    spc[c] \in {"closeLock", "closeDelete", "putReader", "putWriter",
                "connClose"}

IsPrefix(a, b) == Len(a) <= Len(b) /\ SubSeq(b, 1, Len(a)) = a

\* C1: every id in sessions refers to a session whose socket is open on the
\* gateway side.
C1_SessionsOpen == \A id \in DOMAIN sessions : connOpen[sessions[id].conn]

\* C2: Session.Close runs at most once for every session.
C2_CloseOnce == \A c \in Conns : closeCount[c] <= 1

\* C3: with maxclient = N # 0 at most N sessions have an open socket, and a
\* connection accepted when the counter was already >= N is closed before its
\* read worker runs.
C3_CapHolds ==
    maxclient # 0 =>
        /\ Cardinality({c \in Conns : HasSession(c) /\ connOpen[c]})
              <= maxclient
        /\ \A c \in Conns :
              (spc[c] # "none" /\ Geq32(admitted[c].count, maxclient))
                  => ~connOpen[c]

C3_Witness ==
    /\ maxclient = 1
    /\ spc[1] # "none" /\ connOpen[1]
    /\ spc[2] # "none" /\ ~connOpen[2]
    /\ admitted[2].count = 1

\* C4: clinetnum is the live session count whenever the accept worker is
\* between iterations and no kick / closeSession is running, so a connection
\* accepted while fewer than maxclient sessions are live is admitted.
C4_CountIsLive ==
    /\ (/\ apc \in {"select", "accept", "done"}
        /\ kpc = "idle"
        /\ \A c \in Conns : ~Closing(c))
          => clinetnum = Cardinality(DOMAIN sessions)
    /\ \A c \in Conns :
          (maxclient # 0 /\ HasSession(c) /\ admitted[c].live < maxclient)
              => ~admitted[c].closed

\* C5: once kick(id) has returned for an id that was in sessions, the id is
\* not in sessions, the session's socket is closed, and a Write for the id
\* that starts afterwards finds no session and writes no bytes.
C5_KickEffective ==
    /\ \A id \in kicked :
          /\ ~MapHas(sessions, id)
          /\ \A c \in Conns : ssession[c].sessionid = id => ~connOpen[c]
    /\ wAfterKick => (wpc # "write" /\ ~wok /\ wDest = NoConn)

C5_Witness ==
    /\ wAfterKick
    /\ wmsg.session \in kicked
    /\ wpc = "idle"
    /\ \E c \in Conns : ssession[c].sessionid = wmsg.session

\* C6: kick(id) and Write({id, data}) for an id that is not in sessions return
\* at once, without a panic, and leave sessions, the counter, the sockets and
\* the pools as they were.
C6_Untouched ==
    /\ sessions' = sessions
    /\ clinetnum' = clinetnum
    /\ connOpen' = connOpen
    /\ sockOut' = sockOut
    /\ poolVars' = poolVars
    /\ crashed' = crashed

C6_AbsentNoOp ==
    [][/\ (kpc = "delete" /\ kpc' # "delete" /\ ~MapHas(sessions, kid))
            => (kpc' = "idle" /\ C6_Untouched)
       /\ (wpc = "lookup" /\ wpc' # "lookup" /\ ~MapHas(sessions, wmsg.session))
            => (wpc' = "idle" /\ C6_Untouched)]_vars

C6_Witness ==
    /\ kpc = "idle" /\ kid # 0 /\ ~kok /\ kid \notin kicked
    /\ wpc = "idle" /\ wmsg.session # 0 /\ ~wok

\* C7: the envelopes a session's worker pushes are, in order, the payloads of
\* the frames its client sent, tagged with the session id and PTYPE_CLIENT.
EnvelopesOf(sid) ==
    LET mine == SelectSeq(mailbox, LAMBDA m : m.msg.session = sid)
    IN  [i \in 1..Len(mine) |-> mine[i].msg.data]

C7_FramesDecoded ==
    /\ \A i \in 1..Len(mailbox) : mailbox[i].ptype = PTYPE_CLIENT
    /\ \A c \in Conns :
          spc[c] # "none" =>
              IsPrefix(EnvelopesOf(ssession[c].sessionid), frames[c])

\* C8: a Write that finds its id writes exactly its data to the socket of
\* the session registered under the id, and to no other socket.  Stated here
\* for sessions whose connection was not closed at the cap, which are among
\* the sessions the claim speaks of (a session closed at the cap is C1's).
C8_WriteDelivers ==
    [][(wpc = "write" /\ wpc' # "write" /\ wok
          /\ ~admitted[wsession.conn].closed) =>
             /\ ~crashed'
             /\ sockOut' = [sockOut EXCEPT ![wsession.conn] = @ \o wmsg.data]]_vars

\* C9: after a read that failed (connection failed, or end of stream) the
\* worker only closes the session and stops.
C9_FailedReadCloses ==
    \A c \in Conns : failedRead[c] => (Closing(c) \/ spc[c] = "done")

\* C10: ids start at 1, each is greater than all ids assigned before, and an
\* insertion never replaces an entry of sessions.
C10_IdsMonotonic ==
    /\ Len(issued) >= 1 => issued[1] = 1
    /\ \A i, j \in 1..Len(issued) :
          i < j => (issued[i] # issued[j] /\ Geq32(issued[j], issued[i]))
    /\ ~overwrote
    /\ apc = "insert" => ~MapHas(sessions, asession.sessionid)

C10_Witness ==
    /\ Len(issued) = 2
    /\ 1 \in kicked
    /\ DOMAIN sessions = {2}

\* a step of GateResponseDispatch
ResponseStep == nresp' # nresp

\* C11: GateResponseDispatch for a source address with no Gate in the registry
\* ends in a fatal condition: the envelope is not dropped with the program
\* running on, no byte is written to any socket and the registry is unchanged;
\* for an address with a registered Gate it performs that Gate's Write with
\* the envelope's session id and payload.
C11_ResponseDispatch ==
    [][ResponseStep =>
         /\ GATES' = GATES
         /\ sockOut' = sockOut
         /\ sessions' = sessions
         /\ IF rdisp'.source \notin DOMAIN GATES
              THEN crashed' /\ wpc' = wpc /\ wmsg' = wmsg
              ELSE /\ ~crashed'
                   /\ rdisp'.gate = GATES[rdisp'.source]
                   /\ rdisp'.gate = TheGate =>
                        /\ wpc' = "rlock"
                        /\ wmsg' = NewClientMsg(rdisp'.session, rdisp'.data)]_vars

\* an envelope for an unregistered address has stopped the program
C11_Witness ==
    /\ nresp > 0
    /\ rdisp.source \notin DOMAIN GATES
    /\ rdisp.gate = NoGate
    /\ crashed

\* a step of GateDispatch
DispatchStep == ndisp' # ndisp

\* C12: the registry holds one Gate for each address ever dispatched to and
\* no two addresses share a Gate; GateDispatch for an address that has a Gate
\* leaves that Gate and its sessions unchanged, for a new address it adds one
\* entry and changes no other, and no entry is ever removed.
C12_RegistryState ==
    /\ DOMAIN GATES = dispatched
    /\ \A a \in DOMAIN GATES : GATES[a] # NoGate
    /\ \A a, b \in DOMAIN GATES : a # b => GATES[a] # GATES[b]

C12_RegistryGrows ==
    [][/\ \A a \in DOMAIN GATES : a \in DOMAIN GATES' /\ GATES'[a] = GATES[a]
       /\ Cardinality(DOMAIN GATES') <= Cardinality(DOMAIN GATES) + 1
       /\ DispatchStep =>
            /\ sessions' = sessions
            /\ \E a \in Addrs :
                 /\ dispatched' = dispatched \cup {a}
                 /\ DOMAIN GATES' = DOMAIN GATES \cup {a}
                 /\ a \in DOMAIN GATES => GATES' = GATES]_vars

C12_Registry == []C12_RegistryState /\ C12_RegistryGrows

\* both kinds of GateDispatch have run: one made a Gate, one found its Gate
C12_Witness ==
    /\ ndisp = 2
    /\ ngate = 2
    /\ Cardinality(DOMAIN GATES) = 2

\* C13: after Gate.close() every session that was live at that time is
\* eventually removed from sessions and has its socket closed, with no kick
\* and no read failure needed.
C13_CloseDestroys ==
    \A c \in Conns :
        (/\ quit
         /\ spc[c] # "none"
         /\ ssession[c].sessionid \in liveAtClose
         /\ MapHas(sessions, ssession[c].sessionid)
         /\ connOpen[c])
          ~> (crashed \/ (~MapHas(sessions, ssession[c].sessionid)
                            /\ ~connOpen[c]))

\* newSession has built a session for connection c
Built(c) == spc[c] # "none" \/ (apc \in {"lock", "insert"} /\ aconn = c)

SessionOf(c) ==
    IF apc \in {"lock", "insert"} /\ aconn = c THEN asession ELSE ssession[c]

\* Session.Close has been entered for the session of c
Closed(c) == closeCount[c] > 0

\* the read worker of c has not returned, or a Write caller holds its session
CanUse(c) ==
    \/ spc[c] # "done"
    \/ (wpc = "write" /\ wsession # NilSession /\ wsession.conn = c)

ReaderHolders(o) == {c \in Conns : Built(c) /\ SessionOf(c).br = o}
WriterHolders(o) == {c \in Conns : Built(c) /\ SessionOf(c).bw = o}

Exclusive(pool, bind, holders, o) ==
    /\ pool[o] <= 1
    /\ pool[o] > 0 => bind[o] = NoConn
    /\ Cardinality({c \in holders : ~Closed(c)}) <= 1
    /\ pool[o] > 0 => {c \in holders : ~Closed(c)} = {}
    /\ Cardinality({c \in holders : CanUse(c)}) <= 1

\* C14: each buffered reader and writer is either in the free pool (at most
\* once, bound to no stream) or held by exactly one session that has not been
\* closed, never both and never by two sessions; none is handed to a new
\* session while a worker or Write caller of an earlier session can use it.
C14_PoolExclusive ==
    \A o \in Objs :
        /\ Exclusive(readerPool, rdBind, ReaderHolders(o), o)
        /\ Exclusive(writerPool, wrBind, WriterHolders(o), o)

\* C15: Session.ReadFull returns without error only when the bytes were
\* obtained or a temporary transport error occurred; a non-temporary
\* transport error, end of stream and a short read are returned as a failure.
C15_ReadFullSurfaces ==
    \A c \in Conns :
        /\ ~lastErr[c] => lastCause[c] \in {"none", "nil", "temporary"}
        /\ lastErr[c] => lastCause[c] \in {"eof", "fatal"}

\* C16: once Gate.close() has signalled quit, the accept loop leaves at its
\* next iteration boundary and releases the listening socket; it begins no
\* new Accept after the signal, so at most one connection (the one that ends
\* an Accept already in progress) is accepted and given a session after it.
C16_ShutdownState ==
    /\ afterQuit <= 1
    /\ listening <=> apc # "done"
    /\ apc = "done" => quit

C16_ShutdownSteps ==
    [][/\ (apc = "select" /\ apc' # "select") =>
             IF quit THEN apc' = "done" /\ ~listening' ELSE apc' = "accept"
       /\ (apc # "accept" /\ apc' = "accept") => ~quit
       /\ (apc = "done") => apc' = "done"]_vars

C16_AcceptLoopShutdown == []C16_ShutdownState /\ C16_ShutdownSteps

\* close() came during an Accept, one connection was accepted and served,
\* and the loop has returned
C16_Witness ==
    /\ quit
    /\ afterQuit = 1
    /\ apc = "done"
    /\ ~listening
    /\ \E c \in Conns : spc[c] # "none" /\ ssession[c].sessionid \notin liveAtClose

\* kick has deleted id from sessions
KickRemoved(id) ==
    \/ id \in kicked
    \/ /\ kpc \in {"putReader", "putWriter", "connClose"}
       /\ ksession # NilSession
       /\ ksession.sessionid = id

\* the worker of c has deleted its session in closeSession
ServeRemoved(c) == spc[c] \in {"putReader", "putWriter", "connClose", "done"}

\* C17: every insertion into and deletion from sessions happens under the
\* exclusive lock and every lookup of Write under the shared lock; a writer of
\* the map never runs together with another writer or a reader; no insert or
\* delete is lost: a session is in the map from its insertion until kick or
\* closeSession deletes it.
C17_LockState ==
    /\ rwmutex.writer # NoThread => rwmutex.readers = {}
    /\ apc = "insert" <=> Holds(Accepter)
    /\ kpc = "delete" <=> Holds(Kicker)
    /\ \A c \in Conns : spc[c] = "closeDelete" <=> Holds(Server(c))
    /\ wpc = "lookup" <=> HoldsR(WriterT)
    /\ \A c \in Conns :
         spc[c] # "none" =>
           (MapHas(sessions, ssession[c].sessionid)
              <=> ~KickRemoved(ssession[c].sessionid) /\ ~ServeRemoved(c))

C17_LockSteps ==
    [][/\ sessions' # sessions =>
            /\ rwmutex.readers = {}
            /\ rwmutex' = Unlocked
            /\ \/ /\ Holds(Accepter)
                  /\ sessions' = MapPut(sessions, asession.sessionid, asession)
               \/ /\ Holds(Kicker)
                  /\ sessions' = MapDelete(sessions, kid)
               \/ \E c \in Conns :
                    /\ Holds(Server(c))
                    /\ sessions' = MapDelete(sessions, ssession[c].sessionid)
       /\ (wpc = "lookup" /\ wpc' # "lookup") =>
            /\ HoldsR(WriterT)
            /\ rwmutex.writer = NoThread
            /\ wsession' = MapGet(sessions, wmsg.session)]_vars

C17_LockDiscipline == []C17_LockState /\ C17_LockSteps

\* a Write has looked a session up while kick waited for the lock, and kick
\* then deleted the entry
C17_Witness ==
    /\ wpc = "write"
    /\ wsession # NilSession
    /\ KickRemoved(wsession.sessionid)
    /\ ~MapHas(sessions, wsession.sessionid)
    /\ \E c \in Conns : spc[c] # "none" /\ MapHas(sessions, ssession[c].sessionid)

\* thread t holds the registry lock, shared or exclusive
HoldsAny(t) == Holds(t) \/ HoldsR(t)

\* C18: no worker holds the registry lock while it does socket I/O or session
\* cleanup: Write writes and flushes after RUnlock, kick and closeSession call
\* Session.Close after Unlock, so a blocked write or close leaves the lock
\* free for accept, kick, Write and cleanup of other sessions.
C18_NoLockDuringIO ==
    /\ wpc = "write" => ~HoldsAny(WriterT)
    /\ kpc \in {"putReader", "putWriter", "connClose"} => ~HoldsAny(Kicker)
    /\ \A c \in Conns :
         spc[c] \in {"head", "headWait", "body", "bodyWait", "putReader",
                     "putWriter", "connClose"} => ~HoldsAny(Server(c))
    /\ apc \in {"accept", "admit"} => ~HoldsAny(Accepter)

\* kick is inside Session.Close and a Write caller inside Session.Write while
\* another worker has taken the lock
C18_Witness ==
    /\ kpc \in {"putReader", "putWriter", "connClose"}
    /\ wpc = "write"
    /\ rwmutex.writer \notin {NoThread, Kicker, WriterT}

\* C19: from the moment kick(id) returns, the read worker of the kicked
\* session pushes no envelope tagged with id and reads no bytes from another
\* session's connection.
C19_KickedWorkerQuiet == ~pushedAfterKick /\ ~stole

====
